---------------------------- MODULE Spec2Model ----------------------------
(***************************************************************************)
(* Model of the input-classification and output-securing engine of the    *)
(* XSS teaching sandbox (src/src/app/security.py): the pattern catalog,    *)
(* analyze_input, secure_output, get_security_mode and                     *)
(* apply_security_headers.                                                 *)
(*                                                                         *)
(* A Python str is a sequence of one-character strings, so that lower(),   *)
(* find(), replace() and sorted() are computed character by character.     *)
(* The grave accent (U+0060) is written "grave".  Python's None is the     *)
(* one-element tuple None, which no str equals.                            *)
(***************************************************************************)
EXTENDS Integers, Sequences, FiniteSets, TLC

VARIABLES
  pc,           \* "start": inputs fixed, nothing called yet; "done": a call returned or raised
  op,           \* the function that was called last
  appctx,       \* TRUE iff a Flask application context is active (current_app resolves)
  config,       \* current_app.config, a dict restricted to the key SECURITY_MODE
  value,        \* the value argument of analyze_input / secure_output
  context,      \* the context argument of analyze_input / secure_output
  ret,          \* what the last call returned
  raised,       \* the exception the last call let escape, "none" if it returned
  events,       \* the calls made to current_app.logger.warning, in order
  headers,      \* response.headers, a list of <<name, value>> pairs
  origHeaders,  \* response.headers as they were before the first after_request hook
  calls         \* how many times apply_security_headers ran on the response

vars == <<pc, op, appctx, config, value, context, ret, raised, events,
          headers, origHeaders, calls>>

-----------------------------------------------------------------------------
(* Bounds of the model.                                                    *)

\* an input value is the concatenation of at most MaxFrags fragments
MaxFrags == 2

\* the after_request hook runs at most MaxCalls times on one response
MaxCalls == 3

-----------------------------------------------------------------------------
(* Python values and str primitives.                                       *)

None == <<"None">>

\* truth value of a str-or-None operand of `or` / `not`
Truthy(x) == x # None /\ x # <<>>

\* x or d
Or(x, d) == IF Truthy(x) THEN x ELSE d

\* the printable ASCII characters in code point order, from 32
Ascii ==
  <<
    " ", "!", "\"", "#", "$", "%", "&", "'", "(", ")", "*", "+",
    ",", "-", ".", "/", "0", "1", "2", "3", "4", "5", "6", "7",
    "8", "9", ":", ";", "<", "=", ">", "?", "@", "A", "B", "C",
    "D", "E", "F", "G", "H", "I", "J", "K", "L", "M", "N", "O",
    "P", "Q", "R", "S", "T", "U", "V", "W", "X", "Y", "Z", "[",
    "\\", "]", "^", "_", "grave", "a", "b", "c", "d", "e", "f", "g",
    "h", "i", "j", "k", "l", "m", "n", "o", "p", "q", "r", "s",
    "t", "u", "v", "w", "x", "y", "z", "{", "|", "}", "~"
  >>

AsciiSet == {Ascii[i] : i \in 1..Len(Ascii)}

\* ord(c) for the printable ASCII characters, as a table built entry by entry
RECURSIVE OrdTable(_)
OrdTable(n) == IF n = 0 THEN <<>> ELSE OrdTable(n - 1) @@ (Ascii[n] :> 31 + n)

CodePoint == OrdTable(Len(Ascii))

Chr(n) == Ascii[n - 31]

\* str.lower() on one character
LowerChar == [c \in AsciiSet |->
                IF CodePoint[c] >= 65 /\ CodePoint[c] <= 90
                  THEN Chr(CodePoint[c] + 32) ELSE c]

\* str.lower()
RECURSIVE Lower(_)
Lower(s) == IF s = <<>> THEN <<>> ELSE <<LowerChar[s[1]]>> \o Lower(Tail(s))

\* s < t for two str: code point order on the first differing character,
\* a proper prefix first
RECURSIVE StrLess(_, _)
StrLess(s, t) ==
  IF t = <<>> THEN FALSE
  ELSE IF s = <<>> THEN TRUE
  ELSE IF s[1] # t[1] THEN CodePoint[s[1]] < CodePoint[t[1]]
  ELSE StrLess(Tail(s), Tail(t))

\* sorted(S) for a set of str
RECURSIVE sorted(_)
sorted(S) ==
  IF S = {} THEN <<>>
  ELSE LET m == CHOOSE x \in S : \A y \in S \ {x} : StrLess(x, y)
       IN  <<m>> \o sorted(S \ {m})

\* s.find(p) for a non-empty p: the lowest 0-based index where p occurs in
\* s, -1 if none
find(s, p) ==
  LET at == {i \in 0..(Len(s) - Len(p)) :
                 s[i + 1] = p[1] /\ SubSeq(s, i + 1, i + Len(p)) = p}
  IN  IF at = {} THEN -1
      ELSE CHOOSE i \in at : \A j \in at : i <= j

\* s.replace(c, r) for a one-character c
RECURSIVE replace(_, _, _)
replace(s, c, r) ==
  IF s = <<>> THEN <<>>
  ELSE (IF s[1] = c THEN r ELSE <<s[1]>>) \o replace(Tail(s), c, r)

\* html.escape(s), quote=True: five replace passes, "&" first
html_escape(s, quote) ==
  LET s1 == replace(s,  "&", <<"&", "a", "m", "p", ";">>)
      s2 == replace(s1, "<", <<"&", "l", "t", ";">>)
      s3 == replace(s2, ">", <<"&", "g", "t", ";">>)
      s4 == replace(s3, "\"", <<"&", "q", "u", "o", "t", ";">>)
      s5 == replace(s4, "'", <<"&", "#", "x", "2", "7", ";">>)
  IN  IF quote THEN s5 ELSE s3

-----------------------------------------------------------------------------
(* The pattern catalog: families in declaration order, each with its       *)
(* substrings in declaration order.                                        *)

PATTERN_GROUPS ==
  <<
    [ group |-> <<"s", "c", "r", "i", "p", "t", "_", "t", "a", "g">>,
      patterns |-> <<
        <<"<", "s", "c", "r", "i", "p", "t">>,
        <<"<", "/", "s", "c", "r", "i", "p", "t">>
      >> ],
    [ group |-> <<"a", "c", "t", "i", "v", "e", "_", "t", "a", "g">>,
      patterns |-> <<
        <<"<", "i", "f", "r", "a", "m", "e">>,
        <<"<", "f", "r", "a", "m", "e">>,
        <<"<", "f", "r", "a", "m", "e", "s", "e", "t">>,
        <<"s", "r", "c", "d", "o", "c", "=">>,
        <<"<", "s", "v", "g">>,
        <<"<", "m", "a", "t", "h">>,
        <<"<", "o", "b", "j", "e", "c", "t">>,
        <<"<", "e", "m", "b", "e", "d">>,
        <<"<", "v", "i", "d", "e", "o">>,
        <<"<", "a", "u", "d", "i", "o">>,
        <<"<", "s", "o", "u", "r", "c", "e">>
      >> ],
    [ group |-> <<"i", "m", "a", "g", "e", "_", "t", "a", "g">>,
      patterns |-> <<
        <<"<", "i", "m", "g">>,
        <<"<", "i", "m", "a", "g", "e">>,
        <<"s", "r", "c", "s", "e", "t", "=">>,
        <<"x", "l", "i", "n", "k", ":", "h", "r", "e", "f">>
      >> ],
    [ group |-> <<"f", "o", "r", "m", "_", "t", "a", "g">>,
      patterns |-> <<
        <<"<", "f", "o", "r", "m">>,
        <<"<", "i", "n", "p", "u", "t">>,
        <<"<", "t", "e", "x", "t", "a", "r", "e", "a">>,
        <<"<", "b", "u", "t", "t", "o", "n">>,
        <<"<", "s", "e", "l", "e", "c", "t">>,
        <<"o", "n", "s", "u", "b", "m", "i", "t", "=">>,
        <<"o", "n", "r", "e", "s", "e", "t", "=">>
      >> ],
    [ group |-> <<"m", "e", "t", "a", "_", "t", "a", "g">>,
      patterns |-> <<
        <<"<", "m", "e", "t", "a">>,
        <<"h", "t", "t", "p", "-", "e", "q", "u", "i", "v", "=", "\"", "r", "e", "f", "r", "e", "s", "h">>,
        <<"h", "t", "t", "p", "-", "e", "q", "u", "i", "v", "=", "'", "r", "e", "f", "r", "e", "s", "h">>,
        <<"c", "h", "a", "r", "s", "e", "t", "=">>
      >> ],
    [ group |-> <<"s", "c", "h", "e", "m", "e">>,
      patterns |-> <<
        <<"j", "a", "v", "a", "s", "c", "r", "i", "p", "t", ":">>,
        <<"d", "a", "t", "a", ":", "t", "e", "x", "t", "/", "h", "t", "m", "l">>,
        <<"d", "a", "t", "a", ":", "t", "e", "x", "t", "/", "j", "a", "v", "a", "s", "c", "r", "i", "p", "t">>,
        <<"v", "b", "s", "c", "r", "i", "p", "t", ":">>
      >> ],
    [ group |-> <<"e", "v", "e", "n", "t">>,
      patterns |-> <<
        <<"o", "n", "e", "r", "r", "o", "r", "=">>,
        <<"o", "n", "l", "o", "a", "d", "=">>,
        <<"o", "n", "c", "l", "i", "c", "k", "=">>,
        <<"o", "n", "m", "o", "u", "s", "e", "o", "v", "e", "r", "=">>,
        <<"o", "n", "m", "o", "u", "s", "e", "e", "n", "t", "e", "r", "=">>,
        <<"o", "n", "m", "o", "u", "s", "e", "l", "e", "a", "v", "e", "=">>,
        <<"o", "n", "f", "o", "c", "u", "s", "=">>,
        <<"o", "n", "b", "l", "u", "r", "=">>,
        <<"o", "n", "k", "e", "y", "d", "o", "w", "n", "=">>,
        <<"o", "n", "k", "e", "y", "u", "p", "=">>,
        <<"o", "n", "k", "e", "y", "p", "r", "e", "s", "s", "=">>,
        <<"o", "n", "p", "o", "i", "n", "t", "e", "r", "d", "o", "w", "n", "=">>,
        <<"o", "n", "p", "o", "i", "n", "t", "e", "r", "u", "p", "=">>,
        <<"o", "n", "w", "h", "e", "e", "l", "=">>
      >> ],
    [ group |-> <<"d", "o", "m", "_", "s", "i", "n", "k">>,
      patterns |-> <<
        <<"d", "o", "c", "u", "m", "e", "n", "t", ".", "w", "r", "i", "t", "e">>,
        <<"d", "o", "c", "u", "m", "e", "n", "t", ".", "w", "r", "i", "t", "e", "l", "n">>,
        <<"d", "o", "c", "u", "m", "e", "n", "t", ".", "c", "o", "o", "k", "i", "e">>,
        <<"d", "o", "c", "u", "m", "e", "n", "t", ".", "l", "o", "c", "a", "t", "i", "o", "n">>,
        <<"w", "i", "n", "d", "o", "w", ".", "l", "o", "c", "a", "t", "i", "o", "n">>,
        <<"l", "o", "c", "a", "t", "i", "o", "n", ".", "h", "r", "e", "f">>,
        <<"i", "n", "n", "e", "r", "h", "t", "m", "l">>,
        <<"o", "u", "t", "e", "r", "h", "t", "m", "l">>,
        <<"e", "v", "a", "l", "(">>,
        <<"s", "e", "t", "t", "i", "m", "e", "o", "u", "t", "(">>,
        <<"s", "e", "t", "i", "n", "t", "e", "r", "v", "a", "l", "(">>
      >> ],
    [ group |-> <<"n", "e", "u", "t", "r", "a", "l", "_", "p", "o", "l", "y", "g", "l", "o", "t">>,
      patterns |-> <<
        <<"<", "/", "s", "c", "r", "i", "p", "t", ">", "<", "s", "v", "g">>,
        <<"<", "s", "v", "g", ">", "<", "s", "c", "r", "i", "p", "t">>,
        <<"\"", ";", "a", "l", "e", "r", "t", "(">>,
        <<"'", ";", "a", "l", "e", "r", "t", "(">>,
        <<"grave", ";", "a", "l", "e", "r", "t", "(">>,
        <<"a", "l", "e", "r", "t", "(">>
      >> ],
    [ group |-> <<"h", "t", "m", "l", "_", "l", "i", "k", "e">>,
      patterns |-> <<
        <<"<", "h", "t", "m", "l">>,
        <<"<", "b", "o", "d", "y">>,
        <<"<", "/", "h", "t", "m", "l">>,
        <<"<", "/", "b", "o", "d", "y">>,
        <<"<", "!", "-", "-">>,
        <<"-", "-", ">">>
      >> ]
  >>

\* the (family, substring) pairs in the order the two nested loops visit them
RECURSIVE items(_)
items(groups) ==
  IF groups = <<>> THEN <<>>
  ELSE [k \in 1..Len(groups[1].patterns) |->
          [group |-> groups[1].group, pattern |-> groups[1].patterns[k]]]
       \o items(Tail(groups))

PATTERN_ITEMS == items(PATTERN_GROUPS)

-----------------------------------------------------------------------------
(* get_security_mode                                                       *)

off   == <<"o", "f", "f">>
log   == <<"l", "o", "g">>
block == <<"b", "l", "o", "c", "k">>

\* dict.get(key, default)
config_get(cfg, key, default) == IF key \in DOMAIN cfg THEN cfg[key] ELSE default

\* fault variant: the setting is compared without .lower()
get_security_mode_nolower(app, cfg) ==
  LET mode0 == IF app THEN config_get(cfg, "SECURITY_MODE", off) ELSE off
      mode  == Or(mode0, off)
  IN  IF mode \notin {off, log, block} THEN off ELSE mode

\* current_app.config.get("SECURITY_MODE", "off"); current_app raises
\* RuntimeError outside an application context and the except clause
\* turns that into "off"
get_security_mode(app, cfg) ==
  LET mode0 == IF app THEN config_get(cfg, "SECURITY_MODE", off) ELSE off
      mode  == Lower(Or(mode0, off))
  IN  IF mode \notin {off, log, block} THEN off ELSE mode

-----------------------------------------------------------------------------
(* The classifier.                                                         *)

\* fault variant: idx > 0, which drops a match at the start of the input
found_positive(idx) == idx > 0

\* idx != -1
found(idx) == idx # -1

\* the loop body from catalog position k on, appending to matches
RECURSIVE scan(_, _, _)
scan(lowered, k, matches) ==
  IF k > Len(PATTERN_ITEMS) THEN matches
  ELSE LET idx == find(lowered, PATTERN_ITEMS[k].pattern)
       IN  scan(lowered, k + 1,
                IF found(idx)
                  THEN Append(matches, [group   |-> PATTERN_ITEMS[k].group,
                                        pattern |-> PATTERN_ITEMS[k].pattern,
                                        index   |-> idx])
                  ELSE matches)

_analyze_patterns(lowered) == scan(lowered, 1, <<>>)

\* min(matches, key=index): one left-to-right pass that keeps the first
\* element among those with the smallest key
RECURSIVE min_fold(_, _)
min_fold(best, rest) ==
  IF rest = <<>> THEN best
  ELSE min_fold(IF rest[1].index < best.index THEN rest[1] ELSE best, Tail(rest))

\* fault variant: a later element with an equal key replaces the kept one
RECURSIVE min_fold_last(_, _)
min_fold_last(best, rest) ==
  IF rest = <<>> THEN best
  ELSE min_fold_last(IF rest[1].index <= best.index THEN rest[1] ELSE best, Tail(rest))

min_by_index_last(matches) == min_fold_last(matches[1], Tail(matches))

min_by_index(matches) == min_fold(matches[1], Tail(matches))

_extract_categories(matches) ==
  IF matches = <<>>
    THEN [categories |-> <<>>, main_category |-> None]
    ELSE [categories    |-> sorted({matches[k].group : k \in 1..Len(matches)}),
          main_category |-> min_by_index(matches).group]

GroupPrefix   == <<"g", "r", "o", "u", "p", ":">>
PatternPrefix == <<"p", "a", "t", "t", "e", "r", "n", ":">>

\* prefix every element of a list of str
prefixed(prefix, seq) == [k \in 1..Len(seq) |-> prefix \o seq[k]]

\* the distinct values of field f in the order they first appear
RECURSIVE in_order(_, _, _)
in_order(matches, f, seen) ==
  IF matches = <<>> THEN <<>>
  ELSE (IF matches[1][f] \in seen THEN <<>> ELSE <<matches[1][f]>>)
       \o in_order(Tail(matches), f, seen \cup {matches[1][f]})

\* fault variant: the two blocks are left in catalog order, sorted() forgotten
build_reasons_unsorted(matches) ==
  prefixed(GroupPrefix, in_order(matches, "group", {}))
  \o prefixed(PatternPrefix, in_order(matches, "pattern", {}))

build_reasons(matches) ==
  LET groups_present   == {matches[k].group : k \in 1..Len(matches)}
      patterns_present == {matches[k].pattern : k \in 1..Len(matches)}
  IN  prefixed(GroupPrefix, sorted(groups_present))
      \o prefixed(PatternPrefix, sorted(patterns_present))

analyze_input(v, ctx) ==
  IF ~Truthy(v)
    THEN [is_suspicious |-> FALSE, reasons |-> <<>>, context |-> ctx,
          matches |-> <<>>, categories |-> <<>>, main_category |-> None]
    ELSE LET lowered == Lower(v)
             matches == _analyze_patterns(lowered)
             cats    == _extract_categories(matches)
         IN  [is_suspicious |-> matches # <<>>,
              reasons       |-> build_reasons(matches),
              context       |-> ctx,
              matches       |-> matches,
              categories    |-> cats.categories,
              main_category |-> cats.main_category]

-----------------------------------------------------------------------------
(* The output securer.                                                     *)

\* fault variant: the value is handed back without html.escape
sanitize_for_context_raw(v, ctx) ==
  IF v = None THEN <<>> ELSE v

\* fault variant: html.escape(value, quote=False) leaves the quotes alone
sanitize_for_context_noquote(v, ctx) ==
  IF v = None THEN <<>> ELSE html_escape(v, FALSE)

sanitize_for_context(v, ctx) ==
  IF v = None THEN <<>> ELSE html_escape(v, TRUE)

\* fault variant: the placeholder is written as an HTML comment
BLOCKED_comment == <<"<", "!", "-", "-", "b", "l", "o", "c", "k", "e", "d", "-", "-", ">">>

BLOCKED == <<"[", "b", "l", "o", "c", "k", "e", "d", " ", "b", "y", " ",
             "s", "i", "m", "p", "l", "e", " ",
             "c", "o", "n", "t", "e", "x", "t", "-", "b", "a", "s", "e", "d", " ",
             "f", "i", "l", "t", "e", "r", "]">>

\* what one call of current_app.logger.warning can do: return, or fail with
\* RuntimeError, or fail with an exception of another class
LoggerFates == {"ok", "RuntimeError", "OSError"}

\* the outcome of a call: the returned value (None when the call raised),
\* the escaping exception and the logger calls made
Outcome(r, exc, evs) == [ret |-> r, raised |-> exc, events |-> evs]

\* fault variant: the off branch escapes
secure_off_escaped(v) == Outcome(html_escape(Or(v, <<>>), TRUE), "none", <<>>)

\* mode == "off"
secure_off(v) == Outcome(Or(v, <<>>), "none", <<>>)

\* fault variant: the log branch calls the logger whatever the analysis says
secure_log_always(v, ctx, analysis, escaped, fate) ==
  LET event == [level   |-> "warning",
                context |-> ctx,
                reasons |-> analysis.reasons,
                matches |-> analysis.matches,
                value   |-> v]
  IN  IF fate \in {"ok", "RuntimeError"}
        THEN Outcome(escaped, "none", <<event>>)
        ELSE Outcome(None, fate, <<event>>)

\* mode == "log": the logger is called under `except RuntimeError: pass`
secure_log(v, ctx, analysis, escaped, fate) ==
  IF analysis.is_suspicious
    THEN LET event == [level   |-> "warning",
                       context |-> ctx,
                       reasons |-> analysis.reasons,
                       matches |-> analysis.matches,
                       value   |-> v]
         IN  IF fate \in {"ok", "RuntimeError"}
               THEN Outcome(escaped, "none", <<event>>)
               ELSE Outcome(None, fate, <<event>>)
    ELSE Outcome(escaped, "none", <<>>)

\* fault variant: the block branch never substitutes the sentinel
secure_block_escapes(analysis, escaped) == Outcome(escaped, "none", <<>>)

\* mode == "block"
secure_block(analysis, escaped) ==
  IF analysis.is_suspicious
    THEN Outcome(BLOCKED, "none", <<>>)
    ELSE Outcome(escaped, "none", <<>>)

\* the outcomes one call can have, one for each thing the logger can do
secure_output(v, ctx, app, cfg) ==
  LET mode     == get_security_mode(app, cfg)
      analysis == analyze_input(Or(v, <<>>), ctx)
      escaped  == sanitize_for_context(Or(v, <<>>), ctx)
  IN  IF mode = off THEN {secure_off(v)}
      ELSE IF mode = log
        THEN {secure_log(v, ctx, analysis, escaped, fate) : fate \in LoggerFates}
      ELSE IF mode = block THEN {secure_block(analysis, escaped)}
      ELSE {Outcome(Or(v, <<>>), "none", <<>>)}

-----------------------------------------------------------------------------
(* The header augmenter.                                                   *)

CSP == "default-src 'self'; script-src 'self'; object-src 'none';"

has_header(h, key) == \E i \in 1..Len(h) : h[i][1] = key

\* fault variant: Headers.add(key, default), which appends unconditionally
setdefault_add(h, key, default) == Append(h, <<key, default>>)

\* Headers.setdefault(key, default): adds the pair only when no pair has the key
setdefault(h, key, default) ==
  IF has_header(h, key) THEN h ELSE Append(h, <<key, default>>)

apply_security_headers(h, app, cfg) ==
  LET mode == get_security_mode(app, cfg)
  IN  IF mode \in {log, block}
        THEN setdefault(
               setdefault(
                 setdefault(h, "Content-Security-Policy", CSP),
                 "X-Content-Type-Options", "nosniff"),
               "X-Frame-Options", "DENY")
        ELSE h

-----------------------------------------------------------------------------
(* Inputs.                                                                 *)

\* the pieces input values are built from: tags of several families in
\* both letter cases, an event handler, a polyglot fragment, an entity,
\* a quote and plain text
Fragments ==
  { <<"<", "s", "c", "r", "i", "p", "t", ">">>,
    <<"<", "/", "S", "C", "R", "I", "P", "T", ">">>,
    <<"<", "s", "v", "g", ">">>,
    <<"<", "i", "m", "g", " ", "s", "r", "c", "=", "x", " ">>,
    <<"o", "n", "e", "r", "r", "o", "r", "=", "a", "l", "e", "r", "t", "(", "1", ")", ">">>,
    <<"\"", ";", "a", "l", "e", "r", "t", "(", "1", ")">>,
    <<"&", "l", "t", ";">>,
    <<"h", "e", "l", "l", "o", " ", "w", "o", "r", "l", "d">>,
    <<"'">> }

RECURSIVE Concats(_)
Concats(n) ==
  IF n = 0 THEN {<<>>}
  ELSE Concats(n - 1) \cup {s \o f : s \in Concats(n - 1), f \in Fragments}

Values == Concats(MaxFrags) \cup {None}

Contexts == {"text", "html"}

\* the dict {"SECURITY_MODE": m}
Setting(m) == [k \in {"SECURITY_MODE"} |-> m]

\* the dict without the key
NoSetting == [k \in {} |-> None]

\* every spelling of a lower-case word in upper and lower case letters
RECURSIVE CaseVariants(_)
CaseVariants(w) ==
  IF w = <<>> THEN {<<>>}
  ELSE {<<c>> \o s : c \in {w[1], Chr(CodePoint[w[1]] - 32)}, s \in CaseVariants(Tail(w))}

OtherSettings ==
  { <<>>, None,
    <<"o", "n">>, <<"o", "f">>, <<"l", "o", "g", "s">>, <<" ", "l", "o", "g">>,
    <<"b", "l", "o", "c", "k", "e", "d">>, <<"s", "t", "r", "i", "c", "t">>,
    <<"1">> }

\* the application states get_security_mode is resolved in: no application
\* context, or a context whose config has the setting or lacks it
AllApps ==
  {<<FALSE, NoSetting>>, <<TRUE, NoSetting>>}
  \cup {<<TRUE, Setting(m)>> :
          m \in CaseVariants(off) \cup CaseVariants(log) \cup CaseVariants(block)
                \cup OtherSettings}

\* the application states the securer and the augmenter are exercised in
Apps ==
  {<<FALSE, NoSetting>>, <<TRUE, Setting(off)>>,
   <<TRUE, Setting(log)>>, <<TRUE, Setting(block)>>}

SecurityHeaders == {"Content-Security-Policy", "X-Content-Type-Options", "X-Frame-Options"}

\* a value a handler put on the response before the hook runs
Preset(key) ==
  IF key = "Content-Security-Policy" THEN "default-src 'none'"
  ELSE IF key = "X-Content-Type-Options" THEN ""
  ELSE "SAMEORIGIN"

BaseHeaders == <<<<"Content-Type", "text/html; charset=utf-8">>>>

RECURSIVE with_presets(_, _)
with_presets(h, keys) ==
  IF keys = {} THEN h
  ELSE LET k == CHOOSE x \in keys : TRUE
       IN  with_presets(Append(h, <<k, Preset(k)>>), keys \ {k})

\* the responses the hook receives: the handler's headers, with any subset
\* of the three security headers already set once
Originals ==
  {with_presets(BaseHeaders, ks) : ks \in SUBSET SecurityHeaders}
  \cup {with_presets(<<>>, ks) \o BaseHeaders : ks \in SUBSET SecurityHeaders}

-----------------------------------------------------------------------------
(* The securer and the classifier on every input.                          *)

Idle ==
  /\ pc = "start"
  /\ op = "none"
  /\ ret = None
  /\ raised = "none"
  /\ events = <<>>
  /\ calls = 0

Init ==
  /\ Idle
  /\ \E a \in Apps : appctx = a[1] /\ config = a[2]
  /\ value \in Values
  /\ context \in Contexts
  /\ headers = <<>>
  /\ origHeaders = <<>>

AnalyzeInput ==
  /\ pc = "start"
  /\ pc' = "done"
  /\ op' = "analyze_input"
  /\ ret' = analyze_input(value, context)
  /\ raised' = "none"
  /\ UNCHANGED <<appctx, config, value, context, events, headers, origHeaders, calls>>

SecureOutput ==
  /\ pc = "start"
  /\ \E out \in secure_output(value, context, appctx, config) :
       /\ ret' = out.ret
       /\ raised' = out.raised
       /\ events' = events \o out.events
  /\ pc' = "done"
  /\ op' = "secure_output"
  /\ UNCHANGED <<appctx, config, value, context, headers, origHeaders, calls>>

Next ==
  \/ AnalyzeInput
  \/ SecureOutput

Spec == Init /\ [][Next]_vars

-----------------------------------------------------------------------------
(* Mode resolution on every configuration.                                 *)

InitMode ==
  /\ Idle
  /\ \E a \in AllApps : appctx = a[1] /\ config = a[2]
  /\ value = None
  /\ context = "text"
  /\ headers = <<>>
  /\ origHeaders = <<>>

GetSecurityMode ==
  /\ pc = "start"
  /\ pc' = "done"
  /\ op' = "get_security_mode"
  /\ ret' = get_security_mode(appctx, config)
  /\ raised' = "none"
  /\ UNCHANGED <<appctx, config, value, context, events, headers, origHeaders, calls>>

NextMode == GetSecurityMode

SpecMode == InitMode /\ [][NextMode]_vars

-----------------------------------------------------------------------------
(* The after_request hook, run repeatedly on one response.                 *)

InitHeaders ==
  /\ Idle
  /\ \E a \in Apps : appctx = a[1] /\ config = a[2]
  /\ value = None
  /\ context = "text"
  /\ origHeaders \in Originals
  /\ headers = origHeaders

ApplySecurityHeaders ==
  /\ calls < MaxCalls
  /\ headers' = apply_security_headers(headers, appctx, config)
  /\ calls' = calls + 1
  /\ pc' = "done"
  /\ op' = "apply_security_headers"
  /\ UNCHANGED <<appctx, config, value, context, ret, raised, events, origHeaders>>

NextHeaders == ApplySecurityHeaders

SpecHeaders == InitHeaders /\ [][NextHeaders]_vars

-----------------------------------------------------------------------------
(* Properties.  The expected results are stated without the operators the  *)
(* operations are built from: escaping as one character-wise pass,         *)
(* occurrence as a position where every character agrees up to letter     *)
(* case.                                                                   *)

\* the mode the last call resolved
Mode == get_security_mode(appctx, config)

\* the value as the securer sees it: an absent value is the empty str
Given == IF value = None THEN <<>> ELSE value

Returned(f) == pc = "done" /\ op = f /\ raised = "none"

\* the entity of one character, the character itself if it has none
Entity(c) ==
  CASE c = "&"  -> <<"&", "a", "m", "p", ";">>
    [] c = "<"  -> <<"&", "l", "t", ";">>
    [] c = ">"  -> <<"&", "g", "t", ";">>
    [] c = "\"" -> <<"&", "q", "u", "o", "t", ";">>
    [] c = "'"  -> <<"&", "#", "x", "2", "7", ";">>
    [] OTHER    -> <<c>>

\* one escape pass: every character replaced by its entity, once
RECURSIVE EscapedOnce(_)
EscapedOnce(s) == IF s = <<>> THEN <<>> ELSE Entity(s[1]) \o EscapedOnce(Tail(s))

Sentinel ==
  <<"[", "b", "l", "o", "c", "k", "e", "d", " ", "b", "y", " ", "s", "i", "m", "p", "l", "e", " ",
    "c", "o", "n", "t", "e", "x", "t", "-", "b", "a", "s", "e", "d", " ", "f", "i", "l", "t", "e", "r", "]">>

\* the letters as <<upper case, lower case>> pairs
LetterPairs == {<<Ascii[i], Ascii[i + 32]>> : i \in 34..59}

UpperLetters == {Ascii[i] : i \in 34..59}

\* c is d, or the upper-case letter of d
SameLetter(c, d) == c = d \/ (c \in UpperLetters /\ <<c, d>> \in LetterPairs)

\* p occurs in s at 0-based index i, letter case ignored
OccursAt(p, s, i) ==
  /\ i >= 0
  /\ i + Len(p) <= Len(s)
  /\ \A j \in 1..Len(p) : SameLetter(s[i + j], p[j])

Occurs(p, s) == \E i \in 0..Len(s) : OccursAt(p, s, i)

\* the catalog positions whose substring occurs in s
Triggered(s) == {k \in 1..Len(PATTERN_ITEMS) : Occurs(PATTERN_ITEMS[k].pattern, s)}

TriggeredFamilies(s) == {PATTERN_ITEMS[k].group : k \in Triggered(s)}

TriggeredPatterns(s) == {PATTERN_ITEMS[k].pattern : k \in Triggered(s)}

Range(seq) == {seq[i] : i \in 1..Len(seq)}

\* strictly increasing in code point order
Ascending(seq) == \A i \in 1..Len(seq) : \A j \in 1..Len(seq) : i < j => StrLess(seq[i], seq[j])

\* C1: in mode block secure_output returns the sentinel, whatever the value,
\* when analyze_input marks the value suspicious, and the entity-escaped
\* value otherwise.
C1_BlockSentinelOrEscaped ==
  (pc = "done" /\ op = "secure_output" /\ Mode = block) =>
    /\ raised = "none"
    /\ ret = IF analyze_input(Given, context).is_suspicious
               THEN Sentinel
               ELSE EscapedOnce(Given)

\* a suspicious value was blocked
C1_Witness ==
  /\ Returned("secure_output")
  /\ Mode = block
  /\ Occurs(<<"<", "s", "c", "r", "i", "p", "t">>, Given)
  /\ ret = Sentinel

\* C2: in mode off secure_output returns the value itself, unescaped even
\* when it is suspicious, and the empty str for an absent value.
C2_OffIsIdentity ==
  (pc = "done" /\ op = "secure_output" /\ Mode = off) =>
    /\ raised = "none"
    /\ ret = Given

\* a suspicious value with characters that escaping would change came back raw
C2_Witness ==
  /\ Returned("secure_output")
  /\ Mode = off
  /\ Triggered(Given) # {}
  /\ EscapedOnce(Given) # Given
  /\ ret = value

\* C3: in mode log the value secure_output returns is one escape pass over
\* the input, suspicious or not; an entity in the input is escaped again.
C3_LogIsOneEscapePass ==
  (Returned("secure_output") /\ Mode = log) => ret = EscapedOnce(Given)

\* the input held the entity &lt; and came back with &amp;lt;
C3_Witness ==
  /\ Returned("secure_output")
  /\ Mode = log
  /\ Occurs(<<"&", "l", "t", ";">>, Given)
  /\ Occurs(<<"&", "a", "m", "p", ";", "l", "t", ";">>, ret)
  /\ Occurs(<<"'">>, Given)
  /\ ret # EscapedOnce(ret)

\* C4: the logger is called exactly when secure_output runs in mode log on
\* a value analyze_input marks suspicious, and then once, with the context,
\* the reasons, the matches and the unescaped value; analyze_input never
\* calls it.
C4_LogEventExactlyWhenLogAndSuspicious ==
  pc = "done" =>
    IF op = "secure_output" /\ Mode = log
      THEN \E analysis \in {analyze_input(Given, context)} :
             IF analysis.is_suspicious
               THEN /\ Len(events) = 1
                    /\ events[1].context = context
                    /\ events[1].reasons = analysis.reasons
                    /\ events[1].matches = analysis.matches
                    /\ events[1].value = value
               ELSE events = <<>>
      ELSE events = <<>>

\* a suspicious value was logged, raw, and returned escaped
C4_Witness ==
  /\ Returned("secure_output")
  /\ Mode = log
  /\ Len(events) = 1
  /\ events[1].value = value
  /\ events[1].reasons # <<>>
  /\ ret # value

\* C5: in mode log secure_output raises nothing and returns the escaped
\* value, whatever the logger does.
C5_LoggerFailureAbsorbed ==
  (pc = "done" /\ op = "secure_output" /\ Mode = log) =>
    /\ raised = "none"
    /\ ret = EscapedOnce(Given)

\* s spells the lower-case word w, letter case ignored
Spells(s, w) ==
  /\ s # None
  /\ Len(s) = Len(w)
  /\ \A i \in 1..Len(w) : SameLetter(s[i], w[i])

\* the setting get_security_mode can read: it needs the application context
\* and the key
HasSetting == appctx /\ "SECURITY_MODE" \in DOMAIN config

\* C6: get_security_mode raises nothing and returns off, log or block: the
\* mode the setting spells in any letter case, and off when there is no
\* application context, no setting, an empty one, or any other value.
C6_ModeAlwaysValid ==
  (pc = "done" /\ op = "get_security_mode") =>
    /\ raised = "none"
    /\ ret \in {off, log, block}
    /\ \A w \in {off, log, block} :
         (HasSetting /\ Spells(config["SECURITY_MODE"], w)) => ret = w
    /\ (~HasSetting \/ \A w \in {off, log, block} : ~Spells(config["SECURITY_MODE"], w))
         => ret = off

\* a setting in mixed case resolved to its lower-case mode
C6_Witness ==
  /\ Returned("get_security_mode")
  /\ HasSetting
  /\ config["SECURITY_MODE"] = <<"B", "l", "o", "C", "k">>
  /\ ret = block

\* C7: for a non-empty input, categories is the sorted set of the families
\* with a substring occurring in the input, letter case ignored, and
\* is_suspicious says whether there is one; without a catalog substring the
\* result is clean with no main category, and with "<script" it is
\* suspicious and has script_tag.
C7_CategoriesAreTriggeredFamilies ==
  (pc = "done" /\ op = "analyze_input" /\ Truthy(value)) =>
    LET F == TriggeredFamilies(value)
    IN  /\ Range(ret.categories) = F
        /\ Ascending(ret.categories)
        /\ ret.is_suspicious = (F # {})
        /\ F = {} =>
             /\ ret.is_suspicious = FALSE
             /\ ret.categories = <<>>
             /\ ret.main_category = None
        /\ (\E i \in 0..(Len(value) - 7) :
              SubSeq(value, i + 1, i + 7) = <<"<", "s", "c", "r", "i", "p", "t">>) =>
             /\ ret.is_suspicious = TRUE
             /\ <<"s", "c", "r", "i", "p", "t", "_", "t", "a", "g">> \in Range(ret.categories)

\* an input starting with "<script" and holding a second family
C7_Witness ==
  /\ Returned("analyze_input")
  /\ Truthy(value)
  /\ Len(value) >= 7
  /\ SubSeq(value, 1, 7) = <<"<", "s", "c", "r", "i", "p", "t">>
  /\ <<"s", "c", "r", "i", "p", "t", "_", "t", "a", "g">> \in Range(ret.categories)
  /\ Len(ret.categories) >= 2

\* the 0-based index of the first occurrence of catalog entry k in s
FirstIndex(k, s) ==
  CHOOSE i \in 0..Len(s) :
    /\ OccursAt(PATTERN_ITEMS[k].pattern, s, i)
    /\ \A j \in 0..(i - 1) : ~OccursAt(PATTERN_ITEMS[k].pattern, s, j)

\* the one of the triggered catalog entries T that decides the main
\* category: the smallest first index, and among equals the earliest
\* catalog position
Earliest(T, s) ==
  LET at   == {<<FirstIndex(k, s), k>> : k \in T}
      best == CHOOSE a \in at :
                \A b \in at \ {a} : a[1] < b[1] \/ (a[1] = b[1] /\ a[2] < b[2])
  IN  best[2]

\* two families match at the same, smallest index
TiedFamilies(s) ==
  LET at == {<<FirstIndex(k, s), k>> : k \in Triggered(s)}
  IN  \E a \in at : \E b \in at :
        /\ PATTERN_ITEMS[a[2]].group # PATTERN_ITEMS[b[2]].group
        /\ a[1] = b[1]
        /\ \A c \in at : a[1] <= c[1]

\* C8: with at least one match, main_category is the family of the match
\* with the smallest first-occurrence index, and of the one declared first
\* in the catalog when several share that index.
C8_MainCategoryIsEarliestMatch ==
  (pc = "done" /\ op = "analyze_input" /\ Truthy(value)) =>
    LET T == Triggered(value)
    IN  T # {} => ret.main_category = PATTERN_ITEMS[Earliest(T, value)].group

\* two families tied at the smallest index and the one declared first won
C8_Witness ==
  /\ Returned("analyze_input")
  /\ Truthy(value)
  /\ TiedFamilies(value)
  /\ ret.main_category = PATTERN_ITEMS[Earliest(Triggered(value), value)].group

\* how many pairs of h carry the header name key
Count(h, key) == Cardinality({i \in 1..Len(h) : h[i][1] = key})

\* the value of the first pair with the name key
ValueOf(h, key) == h[CHOOSE i \in 1..Len(h) : h[i][1] = key /\ \A j \in 1..(i - 1) : h[j][1] # key][2]

DefaultOf(key) ==
  IF key = "Content-Security-Policy"
    THEN "default-src 'self'; script-src 'self'; object-src 'none';"
  ELSE IF key = "X-Content-Type-Options" THEN "nosniff"
  ELSE "DENY"

\* h without the pairs of the three security headers
Others(h) == SelectSeq(h, LAMBDA e : e[1] \notin SecurityHeaders)

\* C9: after one or more runs of apply_security_headers on a response, in
\* mode off the headers are the original ones; in mode log or block each of
\* the three security headers is there exactly once, with the value it had
\* on the response if it had one and the default otherwise, and every
\* other header is as it was.
C9_HeadersSetOnceIfAbsent ==
  calls >= 1 =>
    IF Mode = off
      THEN headers = origHeaders
      ELSE /\ \A key \in SecurityHeaders :
                /\ Count(headers, key) = 1
                /\ ValueOf(headers, key) =
                     IF Count(origHeaders, key) > 0
                       THEN ValueOf(origHeaders, key)
                       ELSE DefaultOf(key)
           /\ Others(headers) = Others(origHeaders)

\* the hook ran twice on a response that had one of the headers and lacked
\* another
C9_Witness ==
  /\ calls >= 2
  /\ Mode = log
  /\ Count(origHeaders, "X-Frame-Options") = 1
  /\ Count(origHeaders, "Content-Security-Policy") = 0
  /\ ValueOf(headers, "X-Frame-Options") = "SAMEORIGIN"
  /\ Count(headers, "Content-Security-Policy") = 1

\* C10: reasons is one "group:<family>" entry per triggered family in
\* ascending order, followed by one "pattern:<substring>" entry per
\* triggered substring in ascending order.
C10_ReasonsGroupsThenPatterns ==
  (pc = "done" /\ op = "analyze_input") =>
    LET T  == Triggered(Given)
        F  == {PATTERN_ITEMS[k].group : k \in T}
        P  == {PATTERN_ITEMS[k].pattern : k \in T}
        n  == Cardinality(F)
        m  == Cardinality(P)
        gs == SubSeq(ret.reasons, 1, n)
        ps == SubSeq(ret.reasons, n + 1, n + m)
    IN  /\ Len(ret.reasons) = n + m
        /\ Range(gs) = {<<"g", "r", "o", "u", "p", ":">> \o f : f \in F}
        /\ Range(ps) = {<<"p", "a", "t", "t", "e", "r", "n", ":">> \o p : p \in P}
        /\ Ascending(gs)
        /\ Ascending(ps)

\* two families and three substrings, listed in another order than the
\* catalog declares them
C10_Witness ==
  /\ Returned("analyze_input")
  /\ Cardinality(TriggeredFamilies(Given)) >= 2
  /\ Cardinality(TriggeredPatterns(Given)) >= 3
  /\ Len(ret.reasons) >= 5
  /\ ret.matches[1].group # ret.categories[1]

\* the entities html.escape produces
Entities == {Entity(c) : c \in {"&", "<", ">", "\"", "'"}}

\* an entity starts at position i of s
EntityAt(s, i) ==
  \E e \in Entities : i + Len(e) - 1 <= Len(s) /\ SubSeq(s, i, i + Len(e) - 1) = e

\* C11: in modes log and block the str secure_output returns has no raw
\* < > " ' and each & in it starts an entity of the escaping, on the
\* escaped branch and on the sentinel branch.
C11_OutputHasNoRawMarkup ==
  (Returned("secure_output") /\ Mode \in {log, block}) =>
    \A i \in 1..Len(ret) :
      /\ ret[i] \notin {"<", ">", "\"", "'"}
      /\ ret[i] = "&" => EntityAt(ret, i)

\* a value with a tag, a double quote and an entity came back escaped
C11_Witness ==
  /\ Returned("secure_output")
  /\ Mode = log
  /\ \E i \in 1..Len(Given) : Given[i] = "<"
  /\ \E i \in 1..Len(Given) : Given[i] = "\""
  /\ \E i \in 1..Len(ret) : ret[i] = "&"
  /\ ret = EscapedOnce(Given)

\* C12: in mode block the str secure_output returns is never suspicious
\* itself: analyze_input finds no catalog substring in the sentinel or in
\* the escaped form of a value that had none.
C12_BlockedOutputIsClean ==
  (Returned("secure_output") /\ Mode = block) =>
    /\ analyze_input(ret, context).is_suspicious = FALSE
    /\ Triggered(ret) = {}

\* a value without a catalog substring came back changed by the escaping,
\* and clean
C12_Witness ==
  /\ Returned("secure_output")
  /\ Mode = block
  /\ Triggered(Given) = {}
  /\ ret # Given
  /\ ret # Sentinel
  /\ analyze_input(ret, context).is_suspicious = FALSE

=============================================================================
